---- MODULE Spec2Model ----
(***************************************************************************)
(* The relay's session actor (relay/internal/relay/session_actor.go), its  *)
(* replay ring (ring.go) and its token bucket (rate.go) as a state         *)
(* machine.  One session is modelled; connections are numbered in the      *)
(* order in which they are upgraded.  A frame is the sequence of its       *)
(* bytes; the relay classifies it by its first byte only.                  *)
(***************************************************************************)
EXTENDS Integers, Sequences, FiniteSets, TLC

\* ------------------------------------------------------------- bounds
\* connections upgraded over a run
MaxConns == 3
\* capacity of every egress channel (256 in the code)
ChanCap == 2
\* capacity of every ingress channel (256 in the code)
RecvCap == 1
\* ring capacity in bytes (RING_BUFFER_BYTES)
RingCap == 2
\* token bucket rate and capacity in bytes (RATE_LIMIT_BPS)
RateBPS == 1
\* idle timeout in clock ticks (IDLE_TIMEOUT_SECONDS)
IdleTO == 0
\* the clock stops advancing here
MaxTime == 1
\* frames the read pumps accept over a run
MaxFrames == 3
\* transport failures (a read or a write failing on an open socket) over a run
MaxFails == 1
\* largest resumeSeq a client connects with
MaxResume == 1
\* pushes of the stand-alone ring specification
MaxPush == 5
\* calls of SessionActor.Close over a run of the hub specification
MaxCloses == 2
\* Hub.Close calls in progress at a time
MaxBusy == 2
\* the clock of the stand-alone rate limiter specification stops here
MaxRateTime == 3
\* actors the hub creates while their identities are recorded
MaxActors == 3
\* sa.ttl, in clock ticks
SessionTTL == 0
\* the instants tokens are made for and verified at: 0..MaxAuthTime, in
\* fractions of a second
MaxAuthTime == 4
\* how many of these fractions make a second
TicksPerSecond == 2

\* the byte '{' that marks a JSON frame
LBrace == 123
\* the bytes '0' and '9', and the base resumeSeq is read in
Digit0 == 48
Digit9 == 57
Base == 10
\* http.StatusBadRequest, http.StatusUnauthorized, and the answer to an
\* upgrade, http.StatusSwitchingProtocols
StatusBadRequest == 400
StatusUnauthorized == 401
StatusSwitchingProtocols == 101

\* ------------------------------------------------------------- frames
\* a JSON frame of n bytes: '{' followed by n-1 bytes 'a'
JsonOfLen(n) == [i \in 1..n |-> IF i = 1 THEN LBrace ELSE 97]

\* a binary frame of n bytes 'a'
BinOfLen(n) == [i \in 1..n |-> 97]

\* frames the host peer may send: JSON, binary
HostPayloads == {JsonOfLen(1), BinOfLen(1)}

\* frames the client peer may send: empty, JSON, binary
ClientPayloads == {<<>>, JsonOfLen(1), BinOfLen(1)}

\* isJSON := len(msg) > 0 && msg[0] == '{'
IsJSON(msg) == Len(msg) > 0 /\ msg[1] = LBrace

\* json.Marshal of a map: an object, so its first byte is '{'
Marshal == JsonOfLen(1)

\* what the actor puts on an egress channel: the bytes (data) and, as
\* bookkeeping of the model, what the frame is and the seq it goes with
Entry(k, d, s, m) == [kind |-> k, data |-> d, seq |-> s, msg |-> m]

\* {t:err, message:m, sid}
ErrFrame(m) == Entry("err", Marshal, 0, m)

\* {t:evt, kind:throttle, bps, sid, seq}
ThrottleFrame(s) == Entry("throttle", Marshal, s, "throttle")

\* ------------------------------------------------------------- ring
\* the eviction loop of Push: drop the head while the new frame does not fit
RECURSIVE Evict(_, _, _)
Evict(frames, tot, n) ==
  IF Len(frames) > 0 /\ tot + n > RingCap
  THEN Evict(Tail(frames), tot - Len(frames[1].data), n)
  ELSE [frames |-> frames, total |-> tot]

\* a buggy Push that appends without evicting
PushNoEvict(r, s, data, from) ==
  [frames |-> Append(r.frames, [seq |-> s, data |-> data, from |-> from]),
   total  |-> r.total + Len(data)]

\* Ring.Push(seq, data); from records which peer the frame came from
Push(r, s, data, from) ==
  LET e == Evict(r.frames, r.total, Len(data))
  IN [frames |-> Append(e.frames, [seq |-> s, data |-> data, from |-> from]),
      total  |-> e.total + Len(data)]

\* a buggy loop that also keeps the frame whose seq equals s
RingAfterGE(frames, s) ==
  SelectSeq(frames, LAMBDA f : f.seq >= s)

\* the loop of ReplayFrom: the retained frames with Seq > seq, in ring order
RECURSIVE RingAfter(_, _)
RingAfter(frames, s) ==
  IF frames = <<>> THEN <<>>
  ELSE IF frames[1].seq > s
       THEN <<frames[1]>> \o RingAfter(Tail(frames), s)
       ELSE RingAfter(Tail(frames), s)

\* Ring.ReplayFrom(seq): copies of the payloads of those frames
ReplayFrom(r, s) ==
  LET fs == RingAfter(r.frames, s) IN [i \in 1..Len(fs) |-> fs[i].data]

\* NewRing(capacity)
NewRing == [frames |-> <<>>, total |-> 0]

\* ------------------------------------------------------------- rate
\* NewRateLimiter(bytesPerSec)
NewRateLimiter == [tokens |-> RateBPS, lastRefill |-> 0]

\* a buggy minimum that returns the larger
Larger(a, b) == IF a < b THEN b ELSE a

Min(a, b) == IF a < b THEN a ELSE b

\* a buggy refill that does not cap the bucket
RefillNoCap(rl, t) == rl.tokens + (t - rl.lastRefill) * RateBPS

\* the refill of Allow: tokens + elapsed * refillRate, capped at maxTokens
Refill(rl, t) == Min(rl.tokens + (t - rl.lastRefill) * RateBPS, RateBPS)

\* a buggy Allow that forgets to take the tokens it grants
AllowNoDeduct(rl, n, t) ==
  LET tk == Refill(rl, t)
  IN [ok |-> tk >= n, rl |-> [tokens |-> tk, lastRefill |-> t]]

\* RateLimiter.Allow(n) at clock reading t: the verdict and the limiter after
Allow(rl, n, t) ==
  LET tk == Refill(rl, t)
  IN IF tk >= n
     THEN [ok |-> TRUE,  rl |-> [tokens |-> tk - n, lastRefill |-> t]]
     ELSE [ok |-> FALSE, rl |-> [tokens |-> tk,     lastRefill |-> t]]

\* ------------------------------------------------------------- state
\* ------------------------------------------------------------- tokens
\* the secrets tokens are signed with; the server is configured with the first
Secrets == {"S", "X"}
JwtSecret == "S"

AuthTimes == 0..MaxAuthTime

\* a NumericDate in a token counts whole seconds
WholeSeconds == {t \in AuthTimes : t % TicksPerSecond = 0}

\* a nil *NumericDate, and the claim "exp" of a token: absent, the object
\* Claims marshals its embedded RegisteredClaims to under the key "exp", or
\* the number other issuers put there
Nil == 0 - 1
ExpClaims ==
  {[shape |-> "absent", at |-> Nil]}
    \cup [shape : {"nested", "number"}, at : WholeSeconds \cup {Nil}]

\* a token string: not three segments at all, or header, claims and the key
\* its signature was made with
Garbage == [form |-> "garbage", alg |-> "", key |-> "", sid |-> "absent",
            tid |-> "absent", exp |-> [shape |-> "absent", at |-> Nil]]
Tokens ==
  {Garbage} \cup
  [form : {"jwt"}, alg : {"HS256", "RS256"}, key : Secrets,
   sid : {"absent", "s1", "s2"}, tid : {"absent", "t1"}, exp : ExpClaims]

\* Claims{}
NoClaims == [SID |-> "", TID |-> "", ExpiresAt |-> Nil]

\* return Claims{}, err
Fail(e) == [err |-> e, claims |-> NoClaims]

\* json.Unmarshal of a string field: a missing key leaves the zero value
Decoded(f) == IF f = "absent" THEN "" ELSE f

\* token.Method.(*jwt.SigningMethodHMAC)
IsHMAC(alg) == alg \in {"HS256", "HS384", "HS512"}

\* VerifyToken(secret, tokenStr) at time t.  jwt.ParseWithClaims splits the
\* string, decodes the claims into *Claims, asks the key function for the
\* key, verifies the signature and validates the registered claims: "exp"
\* is checked when it is there and is not required.
VerifyToken(secret, tok, t) ==
  LET claims == [SID |-> Decoded(tok.sid), TID |-> Decoded(tok.tid),
                 ExpiresAt |-> tok.exp.at]
  IN IF tok.form # "jwt" THEN Fail("token is malformed")
     ELSE IF tok.exp.shape = "number" THEN Fail("token is malformed")
     ELSE IF ~IsHMAC(tok.alg) THEN Fail("unexpected signing method")
     ELSE IF tok.key # secret THEN Fail("signature is invalid")
     ELSE IF claims.ExpiresAt # Nil /\ ~(t < claims.ExpiresAt) THEN Fail("token is expired")
     ELSE IF claims.ExpiresAt # Nil /\ claims.ExpiresAt < t THEN Fail("token expired")
     ELSE [err |-> "", claims |-> claims]

\* jwt.NewNumericDate(t): t.Truncate(TimePrecision), a whole number of seconds
NewNumericDate(t) == t - (t % TicksPerSecond)

\* a buggy NewClaims that sets the two ids the wrong way round
NewClaimsSwapped(sid, tid, exp) ==
  [SID |-> tid, TID |-> sid, ExpiresAt |-> NewNumericDate(exp)]

\* NewClaims(sid, tid, exp)
NewClaims(sid, tid, exp) ==
  [SID |-> sid, TID |-> tid, ExpiresAt |-> NewNumericDate(exp)]

\* jwt.NewWithClaims(jwt.SigningMethodHS256, claims).SignedString(secret)
SignedString(claims, secret) ==
  [form |-> "jwt", alg |-> "HS256", key |-> secret, sid |-> claims.SID,
   tid |-> claims.TID, exp |-> [shape |-> "nested", at |-> claims.ExpiresAt]]

\* ------------------------------------------------------------- state
VARIABLES
  conns,        \* every wsConn made so far, by number
  nconn,        \* how many connections were upgraded
  host,         \* sa.host: a connection number, 0 for nil
  client,       \* sa.client
  seq,          \* sa.seq
  ring,         \* sa.ring
  rate,         \* sa.rate
  closed,       \* sa.closed
  blocked,      \* the handler that holds sa.mu while it waits on a full channel
  now,          \* the wall clock
  lastActive,   \* sa.lastActive
  timer,        \* the idleTimer goroutine: "sleeping" or "done"
  panicked,     \* the panic that ended the process, "none" while it runs
  handlerPanic, \* the last panic net/http recovered in a request handler
  exited,       \* main has returned
  nframes,      \* frames read from the sockets so far
  nfails,       \* transport failures so far
  seqLog,       \* every seq assigned, in order of assignment
  replayed,     \* the last stand-alone ReplayFrom call and what it returned
  sessions,     \* the keys of h.sessions
  activeSessions, \* the gauge active_sessions
  hubBusy,      \* the Hub.Close calls past their critical section: [sid, ok, reason]
  registry,     \* the values of h.sessions and what GetOrCreate returned last
  http,         \* the last request handleWS answered, and its answer
  verified,     \* the last stand-alone call of VerifyToken: token, time, result
  metrics,      \* the counters throttle_events_total and bytes_host_to_client_total
  closeStat,    \* SessionActor.Close: calls entered, metadata writes to the side store
  track,        \* the histories below are recorded
  arrived,      \* per connection, the frames its read pump received, in order
  delivered,    \* per connection, the frames its write pump wrote, in order
  fwdLog,       \* the binary frames the limiter let pass: [t, n], in order
  stamps,       \* per forwarding loop the clock value read and not yet stored; the latest stored
  wall          \* the wall clock beside the monotonic one, where the limiter is alone: now and at the last refill

vars == <<conns, nconn, host, client, seq, ring, rate, closed, blocked, now,
          lastActive, timer, panicked, handlerPanic, exited, nframes, nfails,
          seqLog, replayed, sessions, activeSessions, hubBusy, registry, http,
          verified, metrics, closeStat, track, arrived, delivered, fwdLog, stamps,
          wall>>

\* the hub, and the last answer of the server in front of it
hubv == <<sessions, activeSessions, hubBusy, registry, http, verified>>

\* the recorded histories
logs == <<track, arrived, delivered, fwdLog, stamps, wall>>

\* everything but the connections and the two flags that end the process
rest == <<nconn, host, client, seq, ring, rate, closed, blocked, now,
          lastActive, timer, handlerPanic, nframes, seqLog, replayed,
          sessions, activeSessions, hubBusy, registry, http, verified, metrics,
          closeStat, track, arrived, fwdLog, stamps, wall>>


ConnIds == 1..MaxConns

\* the session whose actor is modelled in full, and the session ids in use
SID == "s1"
Sids == {"s1", "s2"}

\* no frame recorded for any connection
NoLog == [c \in ConnIds |-> <<>>]

\* the counters at process start
NoMetrics == [throttle |-> 0, bytes |-> 0]
NoCloses == [calls |-> 0, saved |-> 0]

\* the actors are numbered in the order NewSessionActor made them, 0 for no
\* actor; the first one is the one GetOrCreate made for SID
NoRegistry == [actorOf |-> [s \in Sids |-> IF s = SID THEN 1 ELSE 0], made |-> 1,
               got |-> [sid |-> SID, actor |-> 1]]

\* the registry of a process that is gone
Forgotten == [NoRegistry EXCEPT !.actorOf = [s \in Sids |-> 0]]

\* no request was answered yet
NoHttp == [status |-> 0,
           req |-> [path |-> "", sessionId |-> "", resumeSeq |-> <<>>,
                    token |-> [given |-> FALSE, tok |-> Garbage]]]

\* no token was made by NewClaims
NoMint == [made |-> FALSE, sid |-> "", tid |-> "", exp |-> 0]

\* VerifyToken was not called yet
NoVerify == [called |-> FALSE, secret |-> JwtSecret, token |-> Garbage, at |-> 0,
             out |-> Fail(""), minted |-> NoMint]

\* a connection number not used yet
NoConn == [role |-> "none", send |-> <<>>, closed |-> FALSE, recv |-> <<>>,
           rp |-> "none", wp |-> "none"]

\* &wsConn{conn, send: make(chan []byte, 256)} with q already enqueued, its
\* ingress channel, and its pumps in state p
NewConn(r, q, p) == [role |-> r, send |-> q, closed |-> FALSE, recv |-> <<>>,
                     rp |-> p, wp |-> p]

\* a mutex holder: nobody
NotBlocked == [by |-> "none", conn |-> 0, pending |-> <<>>, reason |-> ""]

\* wc.close() on a connection that is not closed yet: the flag is set, the
\* egress channel and the socket are closed.  On a closed one close(wc.send)
\* panics; every caller tests for that case.
WcClose(cs, c) == [cs EXCEPT ![c].closed = TRUE]

\* a buggy send that puts the frame ahead of the waiting ones
EnqFront(cs, c, e) == [cs EXCEPT ![c].send = <<e>> \o @]

\* wc.send <- e with room in the channel
Enq(cs, c, e) == [cs EXCEPT ![c].send = Append(@, e)]

Full(cs, c) == Len(cs[c].send) >= ChanCap

\* the process is running
Alive == panicked = "none" /\ ~exited

\* sa.mu can be taken
MuFree == blocked.by = "none"

\* an attach that never finds the session closed
SessionClosedNever == FALSE

\* AttachHost / AttachClient: sa.closed.Load()
SessionClosed == closed

\* the wall clock reads 0, as it did when NewRateLimiter ran
NoWall == [at |-> 0, refill |-> 0]

\* no forwarding loop has read the clock, no timestamp is stored
NoStamps == [read |-> [c \in ConnIds |-> Nil], top |-> 0]

\* a hub in which GetOrCreate has just created the session SID; the
\* histories are recorded or not
Started(tr) ==
  /\ conns = [c \in ConnIds |-> NoConn]
  /\ nconn = 0
  /\ host = 0
  /\ client = 0
  /\ seq = 0
  /\ ring = NewRing
  /\ rate = NewRateLimiter
  /\ closed = FALSE
  /\ blocked = NotBlocked
  /\ now = 0
  /\ lastActive = 0
  /\ timer = "sleeping"
  /\ panicked = "none"
  /\ handlerPanic = "none"
  /\ exited = FALSE
  /\ nframes = 0
  /\ nfails = 0
  /\ seqLog = <<>>
  /\ replayed = [after |-> 0, out |-> <<>>]
  /\ sessions = {SID}
  /\ activeSessions = 1
  /\ hubBusy = <<>>
  /\ registry = NoRegistry
  /\ http = NoHttp
  /\ verified = NoVerify
  /\ metrics = NoMetrics
  /\ closeStat = NoCloses
  /\ track = tr
  /\ arrived = NoLog
  /\ delivered = NoLog
  /\ fwdLog = <<>>
  /\ stamps = NoStamps
  /\ wall = NoWall

Init == Started(FALSE)

\* the process is gone, and its memory with it: by an unrecovered panic in a
\* goroutine (why # "none") or because main returned.  hb is what the hub's
\* map, gauge and calls in progress were at that moment.
GoneWith(why, cl, hb) ==
  /\ panicked' = why
  /\ exited' = (why = "none")
  /\ closed' = cl
  /\ conns' = [c \in ConnIds |-> NoConn]
  /\ nconn' = 0 /\ host' = 0 /\ client' = 0 /\ seq' = 0
  /\ ring' = NewRing /\ rate' = NewRateLimiter /\ blocked' = NotBlocked
  /\ now' = 0 /\ lastActive' = 0 /\ timer' = "done" /\ handlerPanic' = "none"
  /\ nframes' = 0 /\ nfails' = 0 /\ seqLog' = <<>>
  /\ sessions' = hb.sessions /\ activeSessions' = hb.active /\ hubBusy' = hb.busy
  /\ registry' = Forgotten /\ http' = NoHttp /\ verified' = NoVerify
  /\ metrics' = NoMetrics /\ closeStat' = NoCloses
  /\ arrived' = NoLog /\ delivered' = NoLog /\ fwdLog' = <<>>
  /\ stamps' = NoStamps /\ wall' = NoWall
  /\ UNCHANGED <<replayed, track>>

\* the process is gone and nothing of the hub is looked at any more
Gone(why, cl) ==
  GoneWith(why, cl, [sessions |-> {}, active |-> 0, busy |-> <<>>, wait |-> <<>>])

\* an unrecovered panic in a goroutine
Crash(why) == Gone(why, closed)

\* ------------------------------------------------------------- attach
\* a buggy replay loop that walks the returned frames from the last to the first
ReplayEntriesReversed(r, resumeFrom) ==
  IF resumeFrom = 0 THEN <<>>
  ELSE LET fs == RingAfter(r.frames, resumeFrom)
           n  == Len(fs)
       IN IF n = 0
          THEN <<ErrFrame("out_of_history")>>
          ELSE [i \in 1..n |-> Entry("replay", fs[n + 1 - i].data, fs[n + 1 - i].seq, "")]

\* what AttachClient enqueues for resumeFrom: nothing, the error frame, or
\* the replayed payloads in the order ReplayFrom returned them
ReplayEntries(r, resumeFrom) ==
  IF resumeFrom = 0 THEN <<>>
  ELSE LET fs == RingAfter(r.frames, resumeFrom)
           out == ReplayFrom(r, resumeFrom)
       IN IF Len(out) = 0
          THEN <<ErrFrame("out_of_history")>>
          ELSE [i \in 1..Len(out) |-> Entry("replay", out[i], fs[i].seq, "")]

\* SessionActor.AttachHost(conn), called by handleWS after the upgrade
AttachHost ==
  /\ Alive /\ MuFree /\ nconn < MaxConns
  /\ LET c == nconn + 1 IN
     /\ nconn' = c
     /\ IF SessionClosed
        THEN \* "session closed": handleWS closes the socket
             /\ conns' = [conns EXCEPT ![c] = [NoConn EXCEPT !.role = "rejected", !.closed = TRUE]]
             /\ UNCHANGED <<host, handlerPanic>>
        ELSE IF host # 0 /\ conns[host].closed
        THEN \* sa.host.close() closes a closed channel: the handler panics,
             \* net/http recovers it, the new socket is left as it is
             /\ handlerPanic' = "close of closed channel"
             /\ conns' = [conns EXCEPT ![c] = [NoConn EXCEPT !.role = "leaked"]]
             /\ UNCHANGED host
        ELSE /\ conns' = [(IF host # 0 THEN WcClose(conns, host) ELSE conns)
                            EXCEPT ![c] = NewConn("host", <<>>, "run")]
             /\ host' = c
             /\ UNCHANGED handlerPanic
  /\ UNCHANGED <<client, seq, ring, rate, closed, blocked, now, lastActive, timer,
                 panicked, exited, nframes, nfails, seqLog, replayed>>
  /\ UNCHANGED <<hubv, metrics, closeStat, logs>>

\* SessionActor.AttachClient(conn, resumeFrom)
AttachClient(resumeFrom) ==
  /\ Alive /\ MuFree /\ nconn < MaxConns
  /\ LET c == nconn + 1 IN
     /\ nconn' = c
     /\ IF SessionClosed
        THEN /\ conns' = [conns EXCEPT ![c] = [NoConn EXCEPT !.role = "rejected", !.closed = TRUE]]
             /\ UNCHANGED <<client, handlerPanic, blocked>>
        ELSE IF client # 0 /\ conns[client].closed
        THEN /\ handlerPanic' = "close of closed channel"
             /\ conns' = [conns EXCEPT ![c] = [NoConn EXCEPT !.role = "leaked"]]
             /\ UNCHANGED <<client, blocked>>
        ELSE LET es == ReplayEntries(ring, resumeFrom)
                 cs == IF client # 0 THEN WcClose(conns, client) ELSE conns
             IN /\ client' = c
                /\ UNCHANGED handlerPanic
                /\ IF Len(es) <= ChanCap
                   THEN \* everything fits; the pumps are started
                        /\ conns' = [cs EXCEPT ![c] = NewConn("client", es, "run")]
                        /\ UNCHANGED blocked
                   ELSE \* the channel fills up before the pumps are started
                        /\ conns' = [cs EXCEPT ![c] =
                                       NewConn("client", SubSeq(es, 1, ChanCap), "none")]
                        /\ blocked' = [by |-> "attach", conn |-> c,
                                       pending |-> SubSeq(es, ChanCap + 1, Len(es)),
                                       reason |-> ""]
  /\ UNCHANGED <<host, seq, ring, rate, closed, now, lastActive, timer,
                 panicked, exited, nframes, nfails, seqLog, replayed>>
  /\ UNCHANGED <<hubv, metrics, closeStat, logs>>

\* ------------------------------------------------------------- forwarding
\* a buggy assignment that hands out the current value again
NextSeqStale(s) == s

\* atomic.AddUint64(&sa.seq, 1): the value the frame is given
NextSeq(s) == s + 1

\* a buggy count that books every frame sent as forwarded bytes
CountBytesAlways(m, e) == [m EXCEPT !.bytes = @ + Len(e.data)]

\* IncThrottleEvents() / AddBytesHostToClient(len(msg)) once e is enqueued
Count(m, e) ==
  IF e.kind = "throttle" THEN [m EXCEPT !.throttle = @ + 1]
  ELSE IF e.kind = "bin" THEN [m EXCEPT !.bytes = @ + Len(e.data)]
  ELSE m

\* to.send <- e under sa.mu: with room the frame is enqueued and the handler
\* returns; on a full channel the handler waits, holding the mutex
SendOrBlock(cs, to, e, by) ==
  IF Full(cs, to)
  THEN /\ conns' = cs
       /\ blocked' = [by |-> by, conn |-> to, pending |-> <<e>>, reason |-> ""]
  ELSE /\ conns' = Enq(cs, to, e)
       /\ UNCHANGED blocked

\* the loop "for msg := range hostRecv" of connection c with
\* SessionActor.processHostToClient(msg)
ProcessHostToClientAt(c, t) ==
  /\ Alive /\ MuFree
  /\ conns[c].role = "host" /\ conns[c].recv # <<>>
  /\ LET msg == Head(conns[c].recv)
         cs  == [conns EXCEPT ![c].recv = Tail(@)]
     IN /\ lastActive' = t
        /\ IF client = 0 \/ conns[client].closed
           THEN \* no client, or its connection is closed: the frame is dropped
                /\ conns' = cs
                /\ UNCHANGED <<seq, ring, rate, blocked, seqLog, metrics>>
           ELSE IF IsJSON(msg)
           THEN /\ seq' = NextSeq(seq)
                /\ seqLog' = Append(seqLog, seq')
                /\ ring' = Push(ring, seq', msg, "host")
                /\ SendOrBlock(cs, client, Entry("fwd", msg, seq', ""), "h2c")
                /\ UNCHANGED <<rate, metrics>>
           ELSE LET a == Allow(rate, Len(msg), now)
                    e == IF a.ok THEN Entry("bin", msg, 0, "") ELSE ThrottleFrame(seq)
                IN /\ rate' = a.rl
                   /\ SendOrBlock(cs, client, e, "h2c")
                   /\ metrics' = IF Full(cs, client) THEN metrics ELSE Count(metrics, e)
                   /\ UNCHANGED <<seq, ring, seqLog>>
  /\ UNCHANGED <<nconn, host, client, closed, now, timer, panicked, handlerPanic,
                 exited, nframes, nfails, replayed>>
  /\ UNCHANGED <<hubv, closeStat, track, arrived, delivered, fwdLog>>

\* the handler with its first statement, sa.lastActive.Store(time.Now().UnixMilli()),
\* taken as one step with the rest
ProcessHostToClient(c) == ProcessHostToClientAt(c, now) /\ UNCHANGED <<stamps, wall>>

\* a buggy test that takes every client frame for JSON
IsClientBinaryNever(msg) == FALSE

\* the test of processClientToHost: len(msg) > 0 && msg[0] != '{'
IsClientBinary(msg) == Len(msg) > 0 /\ msg[1] # LBrace

\* sa.sendToHost may send: the host slot is set and its connection not closed
HostUp(cs) == host # 0 /\ ~cs[host].closed

\* the loop "for msg := range clientRecv" of connection c with
\* SessionActor.processClientToHost(msg)
ProcessClientToHostAt(c, t) ==
  /\ Alive
  /\ conns[c].role = "client" /\ conns[c].recv # <<>>
  /\ LET msg == Head(conns[c].recv)
         cs  == [conns EXCEPT ![c].recv = Tail(@)]
     IN /\ lastActive' = t
        /\ IF IsClientBinary(msg)
           THEN \* binary: the error frame goes to the host, without sa.mu
                /\ HostUp(cs) => ~Full(cs, host)
                /\ conns' = IF HostUp(cs)
                            THEN Enq(cs, host, ErrFrame("binary not expected from client"))
                            ELSE cs
                /\ UNCHANGED <<seq, ring, blocked, seqLog>>
           ELSE /\ MuFree
                /\ seq' = NextSeq(seq)
                /\ seqLog' = Append(seqLog, seq')
                /\ ring' = Push(ring, seq', msg, "client")
                /\ IF HostUp(cs)
                   THEN SendOrBlock(cs, host, Entry("fwd", msg, seq', ""), "c2h")
                   ELSE conns' = cs /\ UNCHANGED blocked
  /\ UNCHANGED <<nconn, host, client, rate, closed, now, timer, panicked,
                 handlerPanic, exited, nframes, nfails, replayed>>
  /\ UNCHANGED <<hubv, metrics, closeStat, track, arrived, delivered, fwdLog>>

\* the handler with its first statement taken as one step with the rest
ProcessClientToHost(c) == ProcessClientToHostAt(c, now) /\ UNCHANGED <<stamps, wall>>

\* ------------------------------------------------------------- pumps
\* readPump: ReadMessage returns a frame, which goes to the ingress channel
ReadPumpOf(c, msg) ==
  /\ Alive /\ nframes < MaxFrames
  /\ conns[c].rp = "run" /\ ~conns[c].closed
  /\ Len(conns[c].recv) < RecvCap
  /\ conns' = [conns EXCEPT ![c].recv = Append(@, msg)]
  /\ nframes' = nframes + 1
  /\ arrived' = IF track THEN [arrived EXCEPT ![c] = Append(@, msg)] ELSE arrived
  /\ UNCHANGED <<nconn, host, client, seq, ring, rate, closed, blocked, now,
                 lastActive, timer, panicked, handlerPanic, exited, nfails, seqLog, replayed>>
  /\ UNCHANGED <<hubv, metrics, closeStat, track, delivered, fwdLog, stamps,
                 wall>>

\* readPump, the peer of connection c sending one of the frames of its role
ReadPump(c, msg) ==
  /\ msg \in (IF conns[c].role = "host" THEN HostPayloads ELSE ClientPayloads)
  /\ ReadPumpOf(c, msg)

\* a pump of connection c returns and its deferred wc.close() runs on cs: the
\* first close of the connection closes it, a second one panics in the
\* pump's goroutine
PumpExit(cs, c, pump) ==
  IF cs[c].closed
  THEN Crash("close of closed channel")
  ELSE \* the socket was open: the read or the write itself failed
       /\ nfails < MaxFails
       /\ nfails' = nfails + 1
       /\ conns' = [WcClose(cs, c) EXCEPT ![c][pump] = "done"]
       /\ UNCHANGED <<panicked, exited, delivered>>
       /\ UNCHANGED rest

\* readPump: ReadMessage fails (the peer is gone, the deadline passed, or the
\* socket was closed) and the pump returns
ReadPumpExit(c) ==
  /\ Alive
  /\ conns[c].rp = "run"
  /\ PumpExit(conns, c, "rp")

\* writePump: a frame is taken from the egress channel and written
WritePump(c) ==
  /\ Alive
  /\ conns[c].wp = "run" /\ conns[c].send # <<>> /\ ~conns[c].closed
  /\ conns' = [conns EXCEPT ![c].send = Tail(@)]
  /\ delivered' = IF track THEN [delivered EXCEPT ![c] = Append(@, Head(conns[c].send))]
                           ELSE delivered
  /\ UNCHANGED <<panicked, exited, nfails>>
  /\ UNCHANGED rest

\* writePump returns: WriteMessage fails on the frame it took (always so on a
\* closed socket), or the egress channel is closed and drained
WritePumpExit(c) ==
  /\ Alive
  /\ conns[c].wp = "run"
  /\ \/ /\ conns[c].send # <<>>
        /\ PumpExit([conns EXCEPT ![c].send = Tail(@)], c, "wp")
     \/ /\ conns[c].send = <<>> /\ conns[c].closed
        /\ PumpExit(conns, c, "wp")

\* ------------------------------------------------------------- close
\* the client half of Close: sa.client.send <- data; sa.client.close()
CloseClientPart(cs, e) ==
  IF client = 0 THEN [conns |-> cs, out |-> "done"]
  ELSE IF cs[client].closed THEN [conns |-> cs, out |-> "panic"]
  ELSE IF Full(cs, client) THEN [conns |-> cs, out |-> "block_client"]
  ELSE [conns |-> WcClose(Enq(cs, client, e), client), out |-> "done"]

\* Close from the host half on: sa.host.send <- data; sa.host.close()
CloseHostPart(cs, e) ==
  IF host = 0 THEN CloseClientPart(cs, e)
  ELSE IF cs[host].closed THEN [conns |-> cs, out |-> "panic"]
  ELSE IF Full(cs, host) THEN [conns |-> cs, out |-> "block_host"]
  ELSE CloseClientPart(WcClose(Enq(cs, host, e), host), e)

\* a buggy gauge update that loses the sign of delta
IncActiveSessionsAbs(g, delta) == g + (IF delta < 0 THEN 0 - delta ELSE delta)

\* IncActiveSessions(delta): activeSessions.Add(delta)
IncActiveSessions(g, delta) == g + delta

\* delete(h.sessions, sid) and the swap of CloseAll, as the registry sees
\* them: only the actors of the sessions ss stay registered
Keep(reg, ss) ==
  IF track
  THEN [reg EXCEPT !.actorOf = [s \in Sids |-> IF s \in ss THEN reg.actorOf[s] ELSE 0]]
  ELSE reg

\* the hub as it is
HubNow == [sessions |-> sessions, active |-> activeSessions, busy |-> hubBusy,
           wait |-> hubBusy]

\* Hub.CloseAll has swapped out n sessions and has not returned yet
AllBusy(n) == [sid |-> "*", ok |-> TRUE, reason |-> "shutdown", n |-> n]

\* the hub when the Close that waited on a full channel returns: for a
\* Close made by CloseAll the gauge is lowered by the number of sessions
\* swapped out and CloseAll returns
HubAfter(reason) ==
  IF reason = "shutdown"
  THEN LET i == CHOOSE k \in 1..Len(hubBusy) : hubBusy[k].reason = "shutdown"
       IN [sessions |-> sessions,
           active |-> IncActiveSessions(activeSessions, 0 - hubBusy[i].n),
           busy |-> SubSeq(hubBusy, 1, i - 1) \o SubSeq(hubBusy, i + 1, Len(hubBusy)),
           wait |-> hubBusy]
  ELSE HubNow

\* the outcome r of (the rest of) Close(reason), which leaves the idle timer
\* in state tm: a send on a closed channel panics in the goroutine that
\* called Close; a send on a full channel waits with the mutex held; main
\* returns once CloseAll has.  st is closeStat with the call counted.  hb is
\* the hub once the caller has returned; its map is changed before Close is
\* called, its gauge after Close has returned.
CloseOutcome(r, reason, tm, st, hb) ==
  IF r.out = "panic" THEN Crash("send on closed channel")
  ELSE IF r.out = "done" /\ reason = "shutdown" THEN GoneWith("none", TRUE, hb)
  ELSE /\ conns' = r.conns
       /\ closed' = TRUE
       /\ timer' = tm
       /\ blocked' = IF r.out = "block_host"
                     THEN [by |-> "close_host", conn |-> host,
                           pending |-> <<ErrFrame(reason)>>, reason |-> reason]
                     ELSE IF r.out = "block_client"
                     THEN [by |-> "close_client", conn |-> client,
                           pending |-> <<ErrFrame(reason)>>, reason |-> reason]
                     ELSE NotBlocked
       /\ closeStat' = IF r.out = "done" THEN [st EXCEPT !.saved = @ + 1] ELSE st
       /\ sessions' = hb.sessions
       /\ activeSessions' = IF r.out = "done" THEN hb.active ELSE activeSessions
       /\ hubBusy' = IF r.out = "done" THEN hb.busy ELSE hb.wait
       /\ registry' = Keep(registry, hb.sessions)
       /\ UNCHANGED <<http, verified>>
       /\ UNCHANGED <<nconn, host, client, seq, ring, rate, now, lastActive,
                      panicked, handlerPanic, exited, nframes, nfails, seqLog, replayed>>
       /\ UNCHANGED <<metrics, logs>>

\* a buggy Close that does not test sa.closed
CloseUnguarded(reason, tm, hb) ==
  CloseOutcome(CloseHostPart(conns, ErrFrame(reason)), reason, tm,
               [closeStat EXCEPT !.calls = @ + 1], hb)

\* SessionActor.Close(reason)
Close(reason, tm, hb) ==
  IF closed
  THEN IF reason = "shutdown" THEN GoneWith("none", TRUE, hb)
       ELSE /\ timer' = tm
            /\ closeStat' = [closeStat EXCEPT !.calls = @ + 1]
            /\ sessions' = hb.sessions
            /\ activeSessions' = hb.active
            /\ hubBusy' = hb.busy
            /\ registry' = Keep(registry, hb.sessions)
            /\ UNCHANGED <<http, verified>>
            /\ UNCHANGED <<conns, closed, blocked, nconn, host, client,
                           seq, ring, rate, now, lastActive, panicked, handlerPanic,
                           exited, nframes, nfails, seqLog, replayed>>
            /\ UNCHANGED <<metrics, logs>>
  ELSE CloseOutcome(CloseHostPart(conns, ErrFrame(reason)), reason, tm,
                    [closeStat EXCEPT !.calls = @ + 1], hb)

\* SessionActor.idleTimer wakes from time.Sleep(idleTO).  Sleep returns no
\* earlier than asked and arbitrarily later, so a wake-up that finds the
\* session busy and sleeps again needs no step of its own.  On a closed
\* session the timer returns without a call of Close.
IdleTimer ==
  /\ Alive
  /\ timer = "sleeping" /\ now >= IdleTO
  /\ IF closed
     THEN /\ timer' = "done"
          /\ UNCHANGED <<conns, closed, blocked, nconn, host, client,
                         seq, ring, rate, now, lastActive, panicked, handlerPanic,
                         exited, nframes, nfails, seqLog, replayed>>
          /\ UNCHANGED <<hubv, metrics, closeStat, logs>>
     ELSE /\ now - lastActive > IdleTO
          /\ MuFree
          /\ Close("idle_timeout", "done", HubNow)

\* main on SIGINT / SIGTERM: Hub.CloseAll empties the map, closes every
\* session with "shutdown" and lowers the gauge by their number
CloseAll ==
  /\ Alive /\ MuFree
  /\ Close("shutdown", timer,
           [sessions |-> {},
            active |-> IncActiveSessions(activeSessions, 0 - Cardinality(sessions)),
            busy |-> hubBusy,
            wait |-> Append(hubBusy, AllBusy(Cardinality(sessions)))])

\* a handler that waited on a full channel goes on: the channel has room
\* again, or it was closed meanwhile and the send panics.  (A blocked
\* AttachClient never goes on: the pumps that would drain the channel are
\* started after the replay loop, and nothing else can reach the connection.)
ResumeBlocked ==
  /\ Alive
  /\ blocked.by \in {"h2c", "c2h", "close_host", "close_client"}
  /\ LET to == blocked.conn
         e  == Head(blocked.pending)
     IN IF conns[to].closed
        THEN Crash("send on closed channel")
        ELSE /\ ~Full(conns, to)
             /\ IF blocked.by \in {"h2c", "c2h"}
                THEN /\ conns' = Enq(conns, to, e)
                     /\ blocked' = NotBlocked
                     /\ metrics' = Count(metrics, e)
                     /\ UNCHANGED <<nconn, host, client, seq, ring, rate, closed,
                                    now, lastActive, timer, panicked, handlerPanic,
                                    exited, nframes, nfails, seqLog, replayed>>
                     /\ UNCHANGED <<hubv, closeStat, logs>>
                ELSE IF blocked.by = "close_host"
                THEN CloseOutcome(CloseClientPart(WcClose(Enq(conns, to, e), to), e),
                                  blocked.reason, timer, closeStat, HubAfter(blocked.reason))
                ELSE CloseOutcome([conns |-> WcClose(Enq(conns, to, e), to), out |-> "done"],
                                  blocked.reason, timer, closeStat, HubAfter(blocked.reason))

\* the wall clock advances
Tick ==
  /\ Alive /\ now < MaxTime
  /\ now' = now + 1
  /\ UNCHANGED <<conns, nconn, host, client, seq, ring, rate, closed, blocked,
                 lastActive, timer, panicked, handlerPanic, exited, nframes,
                 nfails, seqLog, replayed>>
  /\ UNCHANGED <<hubv, metrics, closeStat, logs>>

Next ==
  \/ AttachHost
  \/ \E r \in 0..MaxResume : AttachClient(r)
  \/ \E c \in ConnIds : ProcessHostToClient(c)
  \/ \E c \in ConnIds : ProcessClientToHost(c)
  \/ \E c \in ConnIds : \E msg \in HostPayloads \cup ClientPayloads : ReadPump(c, msg)
  \/ \E c \in ConnIds : ReadPumpExit(c)
  \/ \E c \in ConnIds : WritePump(c)
  \/ \E c \in ConnIds : WritePumpExit(c)
  \/ IdleTimer
  \/ CloseAll
  \/ ResumeBlocked
  \/ Tick

Spec == Init /\ [][Next]_vars

\* ------------------------------------------------------------- one pair of peers
\* one host connection and one client connection, what each read and what
\* each was written recorded
InitTrace == Started(TRUE)

NextTrace ==
  \/ host = 0 /\ AttachHost
  \/ client = 0 /\ \E r \in 0..MaxResume : AttachClient(r)
  \/ \E c \in ConnIds : ProcessHostToClient(c)
  \/ \E c \in ConnIds : ProcessClientToHost(c)
  \/ \E c \in ConnIds : \E msg \in HostPayloads \cup ClientPayloads : ReadPump(c, msg)
  \/ \E c \in ConnIds : ReadPumpExit(c)
  \/ \E c \in ConnIds : WritePump(c)
  \/ \E c \in ConnIds : WritePumpExit(c)
  \/ IdleTimer
  \/ CloseAll
  \/ ResumeBlocked
  \/ Tick

SpecTrace == InitTrace /\ [][NextTrace]_vars

\* ------------------------------------------------------------- the hub
\* the reasons Hub.Close is called with
Reasons == {"idle_timeout", "terminated"}

\* q without its i-th element
Without(q, i) == SubSeq(q, 1, i - 1) \o SubSeq(q, i + 1, Len(q))

\* a buggy lookup that never finds the entry
RegisteredNever(sid) == FALSE

\* GetOrCreate: sa, ok := h.sessions[sid]
Registered(sid) == sid \in sessions

\* h.sessions[sid] = NewSessionActor(...), as the registry sees it
Stored(reg, sid) ==
  IF track
  THEN [reg EXCEPT !.actorOf[sid] = reg.made + 1, !.made = reg.made + 1]
  ELSE reg

\* GetOrCreate returns actor a for sid
Returned(reg, sid, a) ==
  IF track THEN [reg EXCEPT !.got = [sid |-> sid, actor |-> a]] ELSE reg

\* Hub.GetOrCreate(sid, tid), the server's answer apart: the actor in the
\* map is returned, or a new one is created, stored and counted.  A new actor for SID starts like the
\* first one; the connections of the actor it replaces stay open but are no
\* longer its own.  (A new actor for SID while a Hub.Close of SID has not
\* returned yet is not modelled.)
GetOrCreateIn(sid) ==
  /\ Alive
  /\ \A i \in 1..Len(hubBusy) : hubBusy[i].sid # sid \/ sid # SID
  /\ IF Registered(sid)
     THEN /\ registry' = Returned(registry, sid, registry.actorOf[sid])
          /\ UNCHANGED <<conns, nconn, host, client, seq, ring, rate, closed, blocked,
                         now, lastActive, timer, panicked, handlerPanic, exited,
                         nframes, nfails, seqLog, replayed, sessions, activeSessions,
                         hubBusy, metrics, closeStat, logs>>
     ELSE /\ track => registry.made < MaxActors
          /\ sessions' = sessions \cup {sid}
          /\ activeSessions' = IncActiveSessions(activeSessions, 1)
          /\ registry' = Returned(Stored(registry, sid), sid, registry.made + 1)
          /\ IF sid = SID
             THEN /\ host' = 0 /\ client' = 0 /\ seq' = 0 /\ seqLog' = <<>>
                  /\ ring' = NewRing
                  /\ rate' = [NewRateLimiter EXCEPT !.lastRefill = now]
                  /\ closed' = FALSE
                  /\ blocked' = NotBlocked
                  /\ lastActive' = now
                  /\ timer' = "sleeping"
                  /\ conns' = [c \in ConnIds |->
                                IF conns[c].role \in {"host", "client"}
                                THEN [conns[c] EXCEPT !.role = "orphan", !.recv = <<>>]
                                ELSE conns[c]]
             ELSE UNCHANGED <<host, client, seq, seqLog, ring, rate, closed, blocked,
                              lastActive, timer, conns>>
          /\ UNCHANGED <<nconn, now, panicked, handlerPanic, exited, nframes, nfails,
                         replayed, hubBusy, metrics, closeStat, logs>>

\* Hub.GetOrCreate(sid, tid), called for a request that is not looked at
GetOrCreate(sid) == GetOrCreateIn(sid) /\ UNCHANGED <<http, verified>>

\* Hub.Close(sid, reason), its critical section: the entry is looked up and
\* deleted; the rest of the call runs outside h.mu
HubCloseBegin(sid, reason) ==
  /\ Alive
  /\ Len(hubBusy) < MaxBusy /\ closeStat.calls < MaxCloses
  /\ sessions' = sessions \ {sid}
  /\ hubBusy' = Append(hubBusy, [sid |-> sid, ok |-> sid \in sessions,
                                 reason |-> reason, n |-> 1])
  /\ registry' = Keep(registry, sessions \ {sid})
  /\ UNCHANGED <<http, verified>>
  /\ UNCHANGED <<conns, nconn, host, client, seq, ring, rate, closed, blocked, now,
                 lastActive, timer, panicked, handlerPanic, exited, nframes, nfails,
                 seqLog, replayed, activeSessions, metrics, closeStat, logs>>

\* Hub.Close, the rest of the i-th call in progress: if the entry was found,
\* sa.Close(reason) and IncActiveSessions(-1).  The actors of the sessions
\* other than SID have no connections, so their Close returns at once; for
\* SID the call goes on when sa.mu is free and no egress channel is full.
HubCloseEnd(i) ==
  /\ Alive
  /\ i \in 1..Len(hubBusy)
  /\ hubBusy[i].reason \in Reasons
  /\ LET e  == hubBusy[i]
         hb == [sessions |-> sessions, busy |-> Without(hubBusy, i),
                wait |-> hubBusy,
                active |-> IF e.ok THEN IncActiveSessions(activeSessions, 0 - 1)
                                   ELSE activeSessions]
     IN IF e.ok /\ e.sid = SID
        THEN /\ MuFree
             /\ closed \/ CloseHostPart(conns, ErrFrame(e.reason)).out \in {"done", "panic"}
             /\ Close(e.reason, timer, hb)
        ELSE /\ hubBusy' = hb.busy
             /\ activeSessions' = hb.active
             /\ UNCHANGED <<registry, http, verified>>
             /\ UNCHANGED <<conns, nconn, host, client, seq, ring, rate, closed,
                            blocked, now, lastActive, timer, panicked, handlerPanic,
                            exited, nframes, nfails, seqLog, replayed, sessions,
                            metrics, closeStat, logs>>

NextHub ==
  \/ \E sid \in Sids : GetOrCreate(sid)
  \/ \E sid \in Sids : \E reason \in Reasons : HubCloseBegin(sid, reason)
  \/ \E i \in 1..(MaxBusy + 1) : HubCloseEnd(i)
  \/ CloseAll
  \/ IdleTimer
  \/ Tick
  \/ AttachHost
  \/ \E r \in 0..MaxResume : AttachClient(r)
  \/ \E c \in ConnIds : ReadPumpExit(c)
  \/ \E c \in ConnIds : WritePumpExit(c)

SpecHub == Init /\ [][NextHub]_vars

\* the hub's map with the identities of the actors recorded
NextReg ==
  \/ \E sid \in Sids : GetOrCreate(sid)
  \/ \E sid \in Sids : \E reason \in Reasons : HubCloseBegin(sid, reason)
  \/ \E i \in 1..(MaxBusy + 1) : HubCloseEnd(i)
  \/ AttachHost
  \/ IdleTimer
  \/ Tick
  \/ CloseAll

SpecReg == InitTrace /\ [][NextReg]_vars

\* ------------------------------------------------------------- requests
\* strconv.ParseUint(str, 10, 64) of a short string: the number, or an error
\* for the empty string and for any byte that is not a digit
RECURSIVE DigitsValue(_)
DigitsValue(str) ==
  IF str = <<>> THEN 0
  ELSE DigitsValue(SubSeq(str, 1, Len(str) - 1)) * Base + (str[Len(str)] - Digit0)

ParseUint(str) ==
  IF str # <<>> /\ \A i \in 1..Len(str) : str[i] \in Digit0..Digit9
  THEN [err |-> FALSE, n |-> DigitsValue(str)]
  ELSE [err |-> TRUE, n |-> 0]

\* wsClient: resume is 0 without the parameter, else what ParseUint makes of it
ResumeOf(str) ==
  IF str = <<>> THEN [err |-> FALSE, n |-> 0] ELSE ParseUint(str)

\* the values of resumeSeq in a request: none, "1", "x", "-1"
ResumeParams == {<<>>, <<Digit0 + 1>>, <<120>>, <<45, Digit0 + 1>>}

\* a token of session s that nothing is wrong with, good until the last
\* whole second
GoodToken(s) ==
  [form |-> "jwt", alg |-> "HS256", key |-> JwtSecret, sid |-> s, tid |-> "t1",
   exp |-> [shape |-> "nested", at |-> MaxAuthTime - (MaxAuthTime % TicksPerSecond)]]

\* the values of token in a request: the parameter is missing, or it holds
\* a good token, one that expired at time 0, one signed with another secret
\* or with another algorithm, one without tid, one without exp, or no token
ReqTokens ==
  [given : {TRUE},
   tok : {GoodToken("s1"), GoodToken("s2"),
          [GoodToken("s1") EXCEPT !.exp.at = 0],
          [GoodToken("s1") EXCEPT !.key = "X"],
          [GoodToken("s1") EXCEPT !.alg = "RS256"],
          [GoodToken("s2") EXCEPT !.tid = "absent"],
          [GoodToken("s2") EXCEPT !.exp = [shape |-> "absent", at |-> Nil]],
          Garbage}]
    \cup {[given |-> FALSE, tok |-> Garbage]}

\* the requests to /ws/host and /ws/client
Requests ==
  [path : {"host", "client"}, sessionId : {""} \cup Sids, token : ReqTokens,
   resumeSeq : ResumeParams]

\* what wsHost / wsClient and handleWS answer to req before the upgrade: an
\* error status, or 0 when the request gets as far as GetOrCreate
StatusOf(req, t) ==
  LET out == VerifyToken(JwtSecret, req.token.tok, t)
  IN IF req.path = "client" /\ ResumeOf(req.resumeSeq).err THEN StatusBadRequest
     ELSE IF req.sessionId = "" \/ ~req.token.given THEN StatusBadRequest
     ELSE IF out.err # "" THEN StatusUnauthorized
     ELSE IF out.claims.SID # req.sessionId THEN StatusUnauthorized
     ELSE 0

\* wsHost / wsClient and handleWS up to the upgrade, for the request req: it
\* is turned down, or GetOrCreate is called for its session.  The upgrade
\* and the attach that follow are the steps AttachHost and AttachClient.
HandleWS(req) ==
  /\ Alive
  /\ LET st == StatusOf(req, now * TicksPerSecond)
     IN IF st # 0
        THEN /\ http' = [status |-> st, req |-> req]
             /\ UNCHANGED <<conns, nconn, host, client, seq, ring, rate, closed,
                            blocked, now, lastActive, timer, panicked, handlerPanic,
                            exited, nframes, nfails, seqLog, replayed, sessions,
                            activeSessions, hubBusy, registry, verified, metrics,
                            closeStat, logs>>
        ELSE /\ http' = [status |-> StatusSwitchingProtocols, req |-> req]
             /\ GetOrCreateIn(req.sessionId)
             /\ UNCHANGED verified

NextWS ==
  \/ \E req \in Requests : HandleWS(req)
  \/ AttachHost
  \/ IdleTimer
  \/ Tick

SpecWS == Init /\ [][NextWS]_vars

\* ------------------------------------------------------------- tokens alone
\* the ids tokens are minted for
MintSids == {"", "s1"}
MintTids == {"", "t1"}

\* everything but the record of the last VerifyToken call
unverified == <<conns, nconn, host, client, seq, ring, rate, closed, blocked, now,
                lastActive, timer, panicked, handlerPanic, exited, nframes, nfails,
                seqLog, replayed, sessions, activeSessions, hubBusy, registry, http,
                metrics, closeStat, track, arrived, delivered, fwdLog, stamps,
          wall>>

\* VerifyToken(secret, tok) is called at time t
Verify(secret, tok, t) ==
  /\ verified' = [called |-> TRUE, secret |-> secret, token |-> tok, at |-> t,
                  out |-> VerifyToken(secret, tok, t), minted |-> NoMint]
  /\ UNCHANGED unverified

\* TestVerifyToken / mintSession: a token is built from NewClaims(sid, tid,
\* exp), signed with secret, and verified at time t
MintAndVerify(sid, tid, exp, secret, t) ==
  LET tok == SignedString(NewClaims(sid, tid, exp), secret)
  IN /\ verified' = [called |-> TRUE, secret |-> secret, token |-> tok, at |-> t,
                     out |-> VerifyToken(secret, tok, t),
                     minted |-> [made |-> TRUE, sid |-> sid, tid |-> tid, exp |-> exp]]
     /\ UNCHANGED unverified

NextAuth ==
  \/ \E secret \in Secrets : \E tok \in Tokens : \E t \in AuthTimes :
       Verify(secret, tok, t)
  \/ \E sid \in MintSids : \E tid \in MintTids : \E exp \in AuthTimes :
     \E secret \in Secrets : \E t \in AuthTimes :
       MintAndVerify(sid, tid, exp, secret, t)

SpecAuth == Init /\ [][NextAuth]_vars

\* ------------------------------------------------------------- a silent session
\* peers attach and their sockets fail, but no frame is read; the idle timer
\* goroutine and the clock are scheduled fairly
NextIdle ==
  \/ AttachHost
  \/ \E r \in 0..MaxResume : AttachClient(r)
  \/ \E c \in ConnIds : ReadPumpExit(c)
  \/ \E c \in ConnIds : WritePumpExit(c)
  \/ IdleTimer
  \/ CloseAll
  \/ Tick

SpecIdle == Init /\ [][NextIdle]_vars /\ WF_vars(IdleTimer) /\ WF_vars(Tick)

\* ------------------------------------------------------------- the limiter alone
\* sizes of the binary frames offered: empty up to one byte over the rate
FrameLens == 0..(RateBPS + 1)

\* the binary branch of processHostToClient as far as the limiter goes: a
\* frame of n bytes is forwarded iff Allow(n) grants it
RateForward(n) ==
  /\ nframes < MaxFrames
  /\ nframes' = nframes + 1
  /\ LET a == Allow(rate, n, now)
     IN /\ rate' = a.rl
        /\ fwdLog' = IF a.ok THEN Append(fwdLog, [t |-> now, n |-> n]) ELSE fwdLog
  /\ wall' = [wall EXCEPT !.refill = wall.at]
  /\ UNCHANGED <<conns, nconn, host, client, seq, ring, closed, blocked, now,
                 lastActive, timer, panicked, handlerPanic, exited, nfails, seqLog,
                 replayed, hubv, metrics, closeStat, track, arrived, delivered,
                 stamps>>

\* a second passes, on the monotonic clock and on the wall clock
RateTick ==
  /\ now < MaxRateTime
  /\ now' = now + 1
  /\ wall' = [wall EXCEPT !.at = @ + 1]
  /\ UNCHANGED <<conns, nconn, host, client, seq, ring, rate, closed, blocked,
                 lastActive, timer, panicked, handlerPanic, exited, nframes, nfails,
                 seqLog, replayed, hubv, metrics, closeStat, track, arrived,
                 delivered, fwdLog, stamps>>

\* the wall clock is set back to w; the monotonic clock is not touched
ClockStepBack(w) ==
  /\ w < wall.at
  /\ wall' = [wall EXCEPT !.at = w]
  /\ UNCHANGED <<conns, nconn, host, client, seq, ring, rate, closed, blocked, now,
                 lastActive, timer, panicked, handlerPanic, exited, nframes, nfails,
                 seqLog, replayed, hubv, metrics, closeStat, track, arrived,
                 delivered, fwdLog, stamps>>

NextRate ==
  \/ \E n \in FrameLens : RateForward(n)
  \/ RateTick

SpecRate == Init /\ [][NextRate]_vars

\* the limiter alone under a wall clock that is set back now and then
NextClock ==
  \/ \E n \in FrameLens : RateForward(n)
  \/ RateTick
  \/ \E w \in 0..MaxRateTime : ClockStepBack(w)

SpecClock == Init /\ [][NextClock]_vars

\* ------------------------------------------------------------- the ring alone
\* payload lengths pushed: empty up to one byte more than the capacity
PushLens == 0..(RingCap + 1)

\* r.Push(seq, data) with the next seq, as the actor calls it
RingPush(n) ==
  /\ seq < MaxPush
  /\ seq' = NextSeq(seq)
  /\ ring' = Push(ring, seq', IF n = 0 THEN <<>> ELSE JsonOfLen(n), "host")
  /\ UNCHANGED <<conns, nconn, host, client, rate, closed, blocked, now, lastActive,
                 timer, panicked, handlerPanic, exited, nframes, nfails, seqLog,
                 replayed>>
  /\ UNCHANGED <<hubv, metrics, closeStat, logs>>

\* r.ReplayFrom(s): the ring is read, the result kept for inspection
RingReplay(s) ==
  /\ replayed' = [after |-> s, out |-> ReplayFrom(ring, s)]
  /\ UNCHANGED <<conns, nconn, host, client, seq, ring, rate, closed, blocked, now,
                 lastActive, timer, panicked, handlerPanic, exited, nframes, nfails,
                 seqLog>>
  /\ UNCHANGED <<hubv, metrics, closeStat, logs>>

NextRing ==
  \/ \E n \in PushLens : RingPush(n)
  \/ \E s \in 0..MaxPush : RingReplay(s)

SpecRing == Init /\ [][NextRing]_vars

\* ------------------------------------------------------------- properties
Last(q) == q[Len(q)]

\* C1: within a session every seq assigned is strictly greater than every seq
\* assigned before it, in whichever direction; the first one is 1, and what
\* the ring retains carries seqs that were assigned, in the same order.
C1_SeqStrictlyMonotonic ==
  /\ \A i, j \in 1..Len(seqLog) : i < j => seqLog[i] < seqLog[j]
  /\ seqLog # <<>> => (seqLog[1] = 1 /\ Last(seqLog) = seq)
  /\ \A i \in 1..Len(ring.frames) :
       /\ \E k \in 1..Len(seqLog) : seqLog[k] = ring.frames[i].seq
       /\ i > 1 => ring.frames[i - 1].seq < ring.frames[i].seq

\* seqs have been assigned to frames of both directions
C1_Witness ==
  /\ Len(seqLog) >= 2
  /\ \E i, j \in 1..Len(ring.frames) :
       ring.frames[i].from = "host" /\ ring.frames[j].from = "client"

\* C2: every JSON frame the host sends into an open session is given the next
\* seq and pushed onto the ring, whether or not a client is attached and
\* whether or not the client's connection is closed.
C2_HostJsonAlwaysSequenced ==
  [][\A c \in ConnIds :
       (ProcessHostToClient(c) /\ ~closed /\ IsJSON(Head(conns[c].recv)))
          => /\ seq' = seq + 1
             /\ ring'.frames # <<>>
             /\ Last(ring'.frames).seq = seq'
             /\ Last(ring'.frames).data = Head(conns[c].recv)]_vars

\* C3: the frames replayed to a resuming client sit in its egress channel in
\* ascending seq order ahead of every other frame, and nothing but the attach
\* itself ever enqueues a replayed frame.
C3_ReplayBeforeForward ==
  /\ [](\A c \in ConnIds :
          LET q == conns[c].send \o (IF blocked.by = "attach" /\ blocked.conn = c
                                     THEN blocked.pending ELSE <<>>)
          IN \A i, j \in 1..Len(q) :
               (i < j /\ q[j].kind = "replay")
                  => (q[i].kind = "replay" /\ q[i].seq < q[j].seq))
  /\ [][\A c \in ConnIds :
          (/\ conns'[c].send # <<>>
           /\ conns'[c].send # conns[c].send
           /\ conns[c].send # <<>> => conns'[c].send # Tail(conns[c].send)
           /\ Last(conns'[c].send).kind = "replay")
             => (conns[c].role = "none" /\ client' = c)]_vars

\* a replayed frame is followed by a frame forwarded after the attach
C3_Witness ==
  \E c \in ConnIds :
    /\ Len(conns[c].send) >= 2
    /\ conns[c].send[1].kind = "replay"
    /\ conns[c].send[2].kind = "fwd"
    /\ conns[c].send[1].seq < conns[c].send[2].seq

\* the entries of the ring with a seq of at most s
UpTo(s) == {i \in 1..Len(ring.frames) : ring.frames[i].seq <= s}

\* C4: ReplayFrom(s) returns the payloads of exactly the retained entries with
\* seq > s, in ring order; they are a suffix of the ring; ReplayFrom(0)
\* returns every retained entry; and the call leaves the ring as it was.
C4_ReplayFromIsSuffix ==
  /\ [](\A s \in 0..(MaxPush + 1) :
          LET out == ReplayFrom(ring, s)
              n   == Len(ring.frames)
              k   == Cardinality(UpTo(s))
          IN /\ UpTo(s) = 1..k
             /\ Len(out) = n - k
             /\ \A i \in 1..Len(out) : out[i] = ring.frames[k + i].data
             /\ s = 0 => Len(out) = n)
  /\ [][replayed' # replayed
          => /\ ring' = ring
             /\ replayed'.out = ReplayFrom(ring, replayed'.after)]_vars

\* a call that returned some of the retained entries, not all of them
C4_Witness ==
  /\ replayed.after > 0
  /\ Len(replayed.out) > 0
  /\ Len(replayed.out) < Len(ring.frames)
  /\ replayed.out = ReplayFrom(ring, replayed.after)

\* C5: a client that resumes from a seq above 0 and below the oldest retained
\* seq is sent the out_of_history error frame and nothing else.
C5_ResumeBelowOldestIsError ==
  [][\A r \in 1..MaxResume :
       (/\ AttachClient(r) /\ ~closed /\ client' # client
        /\ ring.frames # <<>> /\ r < ring.frames[1].seq)
          => conns'[client'].send = <<ErrFrame("out_of_history")>>]_vars

\* C6: a client that resumes from the highest retained seq is sent nothing:
\* no replayed frame and no error frame.
C6_ResumeAtHighestIsSilent ==
  [][\A r \in 1..MaxResume :
       (/\ AttachClient(r) /\ ~closed /\ client' # client
        /\ ring.frames # <<>> /\ r = Last(ring.frames).seq)
          => conns'[client'].send = <<>>]_vars

RECURSIVE SumLen(_)
SumLen(fs) == IF fs = <<>> THEN 0 ELSE Len(Head(fs).data) + SumLen(Tail(fs))

\* the ring holds one entry, larger than the capacity
Oversized(r) == Len(r.frames) = 1 /\ Len(r.frames[1].data) > RingCap

\* C7: after every Push the retained payload bytes are at most the capacity,
\* unless the ring holds nothing but the entry just pushed and that entry
\* alone exceeds the capacity; the next Push evicts such an entry.
C7_RingWithinCapacity ==
  /\ [](/\ ring.total = SumLen(ring.frames)
        /\ ring.total <= RingCap \/ Oversized(ring))
  /\ [][(ring' # ring /\ Oversized(ring))
          => (Len(ring'.frames) = 1 /\ ring'.frames[1].seq = seq')]_vars

\* the ring holds a single entry larger than its capacity
C7_Witness == Oversized(ring) /\ ring.total > RingCap /\ seq > 1

\* the connections of role r in cs that are not closed
Live(cs, r) == {c \in ConnIds : cs[c].role = r /\ ~cs[c].closed}

\* C8: a session has at most one live host connection and at most one live
\* client connection, the one in the slot; an attach to a slot that holds a
\* connection closes that connection and installs the new one.
C8_OneLivePerSlot ==
  /\ [](/\ Live(conns, "host") \subseteq {host}
        /\ Live(conns, "client") \subseteq {client})
  /\ [][/\ (AttachHost /\ ~closed /\ host # 0)
             => (conns'[host].closed /\ host' = nconn' /\ Live(conns', "host") = {host'})
        /\ \A r \in 0..MaxResume :
             (AttachClient(r) /\ ~closed /\ client # 0)
                => (/\ conns'[client].closed /\ client' = nconn'
                    /\ Live(conns', "client") = {client'})]_vars

\* C9: when the read or the write of a peer's socket has failed, only that
\* peer's connection is closed: the pumps of the connection end without
\* ending the process or the session or touching the other slot, and a later
\* attach installs a new connection in the failed slot.
C9_PeerFailureIsLocal ==
  [][/\ \A c \in ConnIds :
          (ReadPumpExit(c) \/ WritePumpExit(c))
             => /\ panicked' = "none" /\ closed' = closed
                /\ \A d \in ConnIds \ {c} : conns'[d] = conns[d]
     /\ (AttachHost /\ ~closed /\ nfails > 0) => host' = nconn'
     /\ \A r \in 0..MaxResume :
          (AttachClient(r) /\ ~closed /\ nfails > 0) => client' = nconn']_vars

\* C10: the relay never panics: no egress channel is closed twice and no
\* frame is sent on a closed egress channel.
C10_NoPanic ==
  /\ panicked \notin {"close of closed channel", "send on closed channel"}
  /\ handlerPanic = "none"

\* a is b with some elements left out
RECURSIVE IsSubseq(_, _)
IsSubseq(a, b) ==
  IF a = <<>> THEN TRUE
  ELSE IF b = <<>> THEN FALSE
  ELSE IF Head(a) = Head(b) THEN IsSubseq(Tail(a), Tail(b))
  ELSE IsSubseq(a, Tail(b))

\* the frames of the other peer among the frames written to a connection
Forwarded(q) == SelectSeq(q, LAMBDA e : e.kind \in {"fwd", "bin"})
Payloads(q) == [i \in 1..Len(q) |-> q[i].data]
SeqsOf(q) == SelectSeq(q, LAMBDA e : e.kind = "fwd")

\* C11: between one host connection and one client connection the frames a
\* peer is written are, in the order written, frames the other peer's read
\* pump received in that order, some possibly left out, in both directions;
\* and the seqs of the JSON frames written to a peer strictly increase.
C11_OrderPreserved ==
  \A h, c \in ConnIds :
    (conns[h].role = "host" /\ conns[c].role = "client")
      => /\ IsSubseq(Payloads(Forwarded(delivered[c])), arrived[h])
         /\ IsSubseq(Payloads(Forwarded(delivered[h])), arrived[c])
         /\ \A d \in {h, c} : \A i, j \in 1..Len(SeqsOf(delivered[d])) :
              i < j => SeqsOf(delivered[d])[i].seq < SeqsOf(delivered[d])[j].seq

\* the client was written two different frames of the host, the host one of
\* the client's
C11_Witness ==
  \E h, c \in ConnIds :
    /\ conns[h].role = "host" /\ conns[c].role = "client"
    /\ Len(Forwarded(delivered[c])) >= 2
    /\ Forwarded(delivered[c])[1].data # Forwarded(delivered[c])[2].data
    /\ Len(Forwarded(delivered[h])) >= 1

\* connection c is a host connection whose next frame is binary and is denied
\* by the limiter with a client attached
DeniedHead(c) ==
  /\ conns[c].role = "host" /\ conns[c].recv # <<>>
  /\ ~IsJSON(Head(conns[c].recv))
  /\ client # 0 /\ ~conns[client].closed
  /\ ~Allow(rate, Len(Head(conns[c].recv)), now).ok

RECURSIVE BytesAt(_, _)
BytesAt(log, T) ==
  IF log = <<>> THEN 0
  ELSE (IF Head(log).t \in T THEN Head(log).n ELSE 0) + BytesAt(Tail(log), T)

BinaryErr == ErrFrame("binary not expected from client")

Idle == Alive /\ ~closed /\ now - lastActive > IdleTO

\* C15: a session in which no frame is processed for longer than idleTimeout
\* is eventually closed, whatever the state of its peers' connections --
\* unless a pump's second close of its connection has ended the process
\* before the idle timer ran.
C15_IdleEventuallyClosed ==
  Idle ~> (closed \/ panicked = "close of closed channel")

\* C16: once the idle timer has closed a session, the hub no longer maps its
\* sessionId and the gauge active_sessions has gone down by one.
C16_IdleCloseLeavesHub ==
  [][(IdleTimer /\ ~closed /\ closed')
        => (SID \notin sessions' /\ activeSessions' = activeSessions - 1)]_vars

\* the frames with which Close tells a peer why the session ends
ReasonFrames == {ErrFrame("idle_timeout"), ErrFrame("shutdown")}

\* C17: a peer attached when Close runs is written the frame carrying the
\* reason before its socket is closed: no closed connection has that frame
\* still waiting in its egress channel, where it can no longer be written.
C17_ReasonBeforeClose ==
  \A c \in ConnIds :
    conns[c].closed =>
      \A i \in 1..Len(conns[c].send) : conns[c].send[i] \notin ReasonFrames


\* a call of sa.Close made by Hub.Close on a session that is closed already
SecondClose ==
  \E i \in 1..Len(hubBusy) :
    /\ hubBusy[i].ok /\ hubBusy[i].sid = SID /\ closed
    /\ HubCloseEnd(i)

\* C18: Close is idempotent: a call on a session that is closed already puts
\* no frame on any egress channel, closes no connection, writes nothing to
\* the side-store, changes no frame or byte counter and leaves the session
\* closed, whatever its reason.
C18_CloseIdempotent ==
  [][SecondClose =>
       /\ conns' = conns
       /\ closeStat'.saved = closeStat.saved
       /\ closeStat'.calls = closeStat.calls + 1
       /\ metrics' = metrics
       /\ closed' /\ blocked' = blocked
       /\ panicked' = "none"]_vars

\* Close has been called twice on the session and has saved its state once
C18_Witness ==
  /\ Alive /\ closed
  /\ closeStat.calls = 2 /\ closeStat.saved = 1
  /\ \E c \in ConnIds : conns[c].closed


\* an attach is attempted on a closed session
AttachOnClosed ==
  closed /\ (AttachHost \/ \E r \in 0..MaxResume : AttachClient(r))

\* C19: the closed state is terminal: while the process runs a closed
\* session stays closed, and an attach on it returns the error: the new
\* connection is turned away with no pump started, the host and client slots
\* and every other connection stay as they were, and nothing is enqueued.
C19_ClosedIsTerminal ==
  [][/\ (closed /\ panicked' = "none" /\ ~exited') => closed'
     /\ AttachOnClosed =>
          /\ host' = host /\ client' = client
          /\ conns'[nconn'].role = "rejected"
          /\ conns'[nconn'].rp = "none" /\ conns'[nconn'].wp = "none"
          /\ conns'[nconn'].send = <<>>
          /\ \A c \in 1..nconn : conns'[c] = conns[c]
          /\ seq' = seq /\ ring' = ring]_vars

\* a connection was turned away by a closed session
C19_Witness ==
  /\ Alive /\ closed
  /\ \E c \in ConnIds : conns[c].role = "rejected"


\* no call of GetOrCreate, Close or CloseAll of the hub is in progress
HubQuiet == hubBusy = <<>> /\ panicked = "none"

\* C20: whenever no call of Hub.GetOrCreate, Hub.Close or Hub.CloseAll is in
\* progress, the active_sessions gauge is the number of entries of the hub's
\* session map; and a Hub.Close of a sessionId that is not in the map changes
\* neither the map nor the gauge, when it looks the id up and when it returns.
C20_GaugeIsMapSize ==
  /\ [](HubQuiet => activeSessions = Cardinality(sessions))
  /\ [][/\ \A sid \in Sids : \A reason \in Reasons :
            (sid \notin sessions /\ HubCloseBegin(sid, reason)) =>
               (sessions' = sessions /\ activeSessions' = activeSessions)
        /\ \A i \in 1..(MaxBusy + 1) :
            (i <= Len(hubBusy) /\ ~hubBusy[i].ok /\ HubCloseEnd(i)) =>
               (sessions' = sessions /\ activeSessions' = activeSessions)]_vars

\* a session was created and another closed through the hub, and the hub is
\* quiet again with one session left
C20_Witness ==
  /\ HubQuiet /\ ~exited
  /\ sessions = {"s2"} /\ activeSessions = 1
  /\ closed /\ closeStat.calls >= 1


\* C21: GetOrCreate(sid) returns the actor registered for sid when there is
\* one, and the map is left as it was; otherwise it registers an actor that
\* was never in the map before and returns that one.  So successive calls
\* for one sid, with no Close between them, all return the same actor, and
\* every registered sid has exactly one actor.
C21_GetOrCreateReturnsRegistered ==
  /\ [](track => \A sid \in Sids : (sid \in sessions) <=> (registry.actorOf[sid] # 0))
  /\ [][\A sid \in Sids : (track /\ GetOrCreate(sid)) =>
          /\ registry'.got = [sid |-> sid, actor |-> registry'.actorOf[sid]]
          /\ sid \in sessions'
          /\ \A o \in Sids \ {sid} : registry'.actorOf[o] = registry.actorOf[o]
          /\ IF sid \in sessions
             THEN registry'.actorOf[sid] = registry.actorOf[sid]
             ELSE registry'.actorOf[sid] > registry.made]_vars

\* GetOrCreate has made actors for both sessions, s2 after s1, and its last
\* call returned the registered actor of s1
C21_Witness ==
  /\ track /\ Alive
  /\ sessions = Sids
  /\ registry.actorOf["s2"] > registry.actorOf[SID]
  /\ registry.got = [sid |-> SID, actor |-> registry.actorOf[SID]]
  /\ registry.actorOf[SID] > 1


\* Hub.CloseAll takes a step: it starts, or its Close goes on after a wait
\* for room in an egress channel
CloseAllStep == CloseAll \/ (blocked.reason = "shutdown" /\ ResumeBlocked)

\* C22: Hub.CloseAll completes whatever the peers' state: each of its steps
\* leaves the map empty and does not end the process by a panic, and either
\* CloseAll has returned, with the session closed, or it waits for room in
\* the egress channel of a peer.
C22_CloseAllCompletes ==
  [][CloseAllStep =>
       /\ panicked' = "none"
       /\ sessions' = {}
       /\ closed'
       /\ exited' \/ blocked'.reason = "shutdown"]_vars


\* the session, created at time 0, is older than its TTL
Expired == now - 0 > SessionTTL

\* the session is touched: a peer attaches or a frame of a peer is handled
Touch ==
  \/ AttachHost
  \/ \E r \in 0..MaxResume : AttachClient(r)
  \/ \E c \in ConnIds : ProcessHostToClient(c) \/ ProcessClientToHost(c)

\* C23: a session older than its TTL is closed and removed from the hub at
\* the latest when it is touched next: a touch of an expired session leaves
\* it closed and unregistered, attaches no peer and forwards no frame.
C23_ClosedAfterTTL ==
  [][(Alive /\ Expired /\ Touch) =>
       /\ closed' /\ SID \notin sessions'
       /\ host' = host /\ client' = client
       /\ \A c \in ConnIds : Len(conns'[c].send) <= Len(conns[c].send)]_vars


\* a token VerifyToken has to turn down at time t with the secret given
Bad(tok, secret, t) ==
  \/ tok.form # "jwt"
  \/ ~IsHMAC(tok.alg)
  \/ tok.key # secret
  \/ tok.sid = "absent" \/ tok.tid = "absent"
  \/ tok.exp.shape = "absent" \/ tok.exp.at = Nil
  \/ tok.exp.at <= t

\* C25: VerifyToken returns an error and the empty claims for every token
\* that is signed with an algorithm other than HMAC, has a signature made
\* with another secret, lacks sessionId, tenantId or exp, or has exp <= now.
C25_BadTokenRejected ==
  (verified.called /\ Bad(verified.token, verified.secret, verified.at)) =>
     (verified.out.err # "" /\ verified.out.claims = NoClaims)

\* the token of the last call was minted for an exp later than the time of
\* the call
MintedAhead == verified.minted.made /\ verified.minted.exp > verified.at

\* the claims the token was minted for have come back
RoundTrip ==
  /\ verified.out.err = ""
  /\ verified.out.claims = [SID |-> verified.minted.sid, TID |-> verified.minted.tid,
                            ExpiresAt |-> verified.minted.exp]

\* C26: a token built from NewClaims(sid, tid, exp) with exp a whole number
\* of seconds later than now, and signed with secret S, is accepted by
\* VerifyToken(S, token) and yields the same sessionId, tenantId and exp.
C26_MintedTokenRoundTrips ==
  (MintedAhead /\ verified.minted.exp \in WholeSeconds) => RoundTrip

\* C26 as stated, for every exp later than now
C26_AnyExpRoundTrips == MintedAhead => RoundTrip

\* a token for a whole second, with both ids set, verified between two
\* seconds, has come back
C26_Witness ==
  /\ MintedAhead /\ RoundTrip
  /\ verified.minted.exp \in WholeSeconds
  /\ verified.at \notin WholeSeconds
  /\ verified.minted.sid = "s1" /\ verified.minted.tid = "t1"


\* what is wrong with a request at time t: a parameter is missing or
\* resumeSeq is no unsigned decimal number; the token is one VerifyToken has
\* to turn down, or it is a token of another session
BadParams(req) ==
  \/ req.sessionId = "" \/ ~req.token.given
  \/ req.path = "client" /\ req.resumeSeq # <<>> /\
       \E i \in 1..Len(req.resumeSeq) : req.resumeSeq[i] \notin Digit0..Digit9
BadAuth(req, t) ==
  /\ req.token.given
  /\ Bad(req.token.tok, JwtSecret, t) \/ req.token.tok.sid # req.sessionId

\* C24: a request with a missing sessionId or token or a malformed
\* resumeSeq is answered 400 and one with a token that is invalid, expired
\* or of another session is answered 401, before the upgrade; such a request
\* creates no session, attaches no connection and changes no session.
C24_BadRequestRejected ==
  [][LET req == http'.req IN
       (HandleWS(req) /\ (BadParams(req) \/ BadAuth(req, now * TicksPerSecond))) =>
          /\ http'.status \in {StatusBadRequest, StatusUnauthorized}
          /\ ~BadAuth(req, now * TicksPerSecond) => http'.status = StatusBadRequest
          /\ ~BadParams(req) => http'.status = StatusUnauthorized
          /\ sessions' = sessions /\ activeSessions' = activeSessions
          /\ registry' = registry
          /\ conns' = conns /\ nconn' = nconn /\ host' = host /\ client' = client
          /\ closed' = closed /\ seq' = seq /\ ring' = ring]_vars


\* the slot holds no live socket: it was never occupied, or the connection
\* in it has disconnected
Vacant(slot) == slot = 0 \/ conns[slot].closed

\* the connection made by this step is installed with its pumps started (or
\* its attach waiting to start them), and nothing else is closed or fails
Installed(c, r) ==
  /\ conns'[c].role = r /\ ~conns'[c].closed
  /\ conns'[c].rp = "run" \/ blocked'.by = "attach"
  /\ \A o \in ConnIds \ {c} : conns'[o] = conns[o]
  /\ handlerPanic' = handlerPanic /\ panicked' = "none"

\* C27: an attach into a slot with no live socket installs the new
\* connection, starts its pumps and closes or breaks nothing else, whether
\* the slot was never occupied or its earlier connection has disconnected.
C27_AttachIntoVacantSlot ==
  [][/\ (~closed /\ Vacant(host) /\ AttachHost) =>
          (host' = nconn' /\ Installed(nconn', "host"))
     /\ (~closed /\ Vacant(client) /\ \E r \in 0..MaxResume : AttachClient(r)) =>
          (client' = nconn' /\ Installed(nconn', "client"))]_vars


\* C28: after a Push of a payload of exactly the ring's byte capacity the
\* ring retains that entry alone: every entry that was there before, those
\* with an empty payload too, is evicted.
C28_FullSizePushEvictsAll ==
  [][RingPush(RingCap) =>
       /\ Len(ring'.frames) = 1
       /\ ring'.frames[1].seq = seq'
       /\ Len(ring'.frames[1].data) = RingCap]_vars

\* the frame the handler of connection c takes next is empty
EmptyNext(c) == conns[c].recv # <<>> /\ Head(conns[c].recv) = <<>>

\* C29: a frame with an empty payload is binary in both directions: the
\* step that handles one, from the host or from the client, assigns no seq
\* and pushes nothing to the ring.
C29_EmptyFrameIsBinary ==
  [][\A c \in ConnIds :
       (EmptyNext(c) /\ (ProcessHostToClient(c) \/ ProcessClientToHost(c))) =>
          (seq' = seq /\ ring' = ring /\ seqLog' = seqLog)]_vars


\* ------------------------------------------------------------- a stalled peer
\* both peers attach and send frames; the handler goroutines, the idle timer
\* and the clock are scheduled fairly, but a write pump advances only as fast
\* as its remote peer takes the bytes (WriteMessage has no write deadline), so
\* nothing is assumed about it
NextStall ==
  \/ AttachHost
  \/ \E r \in 0..MaxResume : AttachClient(r)
  \/ \E c \in ConnIds : ProcessHostToClient(c)
  \/ \E c \in ConnIds : ProcessClientToHost(c)
  \/ \E c \in ConnIds : \E msg \in HostPayloads \cup ClientPayloads : ReadPump(c, msg)
  \/ \E c \in ConnIds : WritePump(c)
  \/ IdleTimer
  \/ ResumeBlocked
  \/ Tick

SpecStall ==
  /\ Init /\ [][NextStall]_vars
  /\ WF_vars(\E c \in ConnIds : ProcessHostToClient(c))
  /\ WF_vars(\E c \in ConnIds : ProcessClientToHost(c))
  /\ WF_vars(ResumeBlocked)
  /\ WF_vars(IdleTimer)
  /\ WF_vars(Tick)

\* a forwarding handler waits on a full egress channel, holding sa.mu
Stalled == blocked.by \in {"h2c", "c2h"}

\* C30: a peer whose egress channel is full cannot stall the session: a
\* handler that waits to enqueue a frame to it, holding the session mutex,
\* stops waiting after a bounded time, so the mutex is free again (or the
\* process has ended) and the other handlers can go on.
C30_StalledPeerCannotStall == Stalled ~> (MuFree \/ ~Alive)

\* the frame the handler of connection c takes next is binary
BinaryNext(c) == conns[c].recv # <<>> /\ ~IsJSON(Head(conns[c].recv))

\* the client slot holds an open connection whose egress channel is full
ClientFull == client # 0 /\ ~conns[client].closed /\ Full(conns, client)

\* C31: when the client's egress channel is full, forwarding a binary frame
\* from the host does not block: the frame is dropped (the channel is left
\* as it was) and the handler returns with the session mutex free.
C31_BinaryDroppedWhenFull ==
  [][\A c \in ConnIds :
       (BinaryNext(c) /\ ClientFull /\ ProcessHostToClient(c)) =>
          (blocked'.by = "none" /\ conns'[client].send = conns[client].send)]_vars

\* ------------------------------------------------------------- replay on attach
\* frames are pushed to the ring and clients attach with a resumeSeq; the
\* write pump of an attached client drains its egress channel
NextReplay ==
  \/ \E n \in PushLens : RingPush(n)
  \/ \E r \in 0..MaxResume : AttachClient(r)
  \/ \E c \in ConnIds : WritePump(c)

SpecReplay == Init /\ [][NextReplay]_vars

\* C32: AttachClient returns for every resumeSeq and every ring content: the
\* replay of more retained frames than the client's egress channel can
\* buffer does not leave the handler waiting with the session mutex held.
C32_AttachClientReturns == blocked.by # "attach"

\* ------------------------------------------------------------- goroutines of a connection
\* the goroutine "for msg := range hostRecv" (or clientRecv) of connection c
\* is running: it is started with the pumps, and it returns only when the
\* ingress channel is closed, which no statement of the program does
LoopRuns(c) == conns[c].rp # "none"

\* a pump of a closed connection returns: ReadMessage and WriteMessage fail on
\* the closed socket, and "range wc.send" ends on the closed channel
ClosedPumpExit(c) == conns[c].closed /\ (ReadPumpExit(c) \/ WritePumpExit(c))

\* the silent session, with the pumps of closed connections scheduled too
SpecQuit ==
  /\ Init /\ [][NextIdle]_vars
  /\ WF_vars(IdleTimer) /\ WF_vars(Tick)
  /\ \A c \in ConnIds : WF_vars(ClosedPumpExit(c))

\* the goroutines started for connection c have all returned
Quit(c) == conns[c].rp # "run" /\ conns[c].wp # "run" /\ ~LoopRuns(c)

\* C33: after a connection is closed, every goroutine started for it, the
\* read pump, the write pump and the forwarding loop, eventually returns
\* (the process going on, or main having returned after the shutdown); so
\* none of them keeps running after the session is closed.
C33_GoroutinesTerminate ==
  \A c \in ConnIds :
    (conns[c].closed /\ LoopRuns(c)) ~> (panicked = "none" /\ Quit(c))

\* ------------------------------------------------------------- the activity stamp
\* everything but the clock values of the forwarding loops
unstamped == <<conns, nconn, host, client, seq, ring, rate, closed, blocked, now,
               lastActive, timer, panicked, handlerPanic, exited, nframes, nfails,
               seqLog, replayed, hubv, metrics, closeStat, track, arrived,
               delivered, fwdLog, wall>>

Max(a, b) == IF a < b THEN b ELSE a

\* the forwarding loop of connection c has taken a frame and its handler
\* evaluates time.Now().UnixMilli(), before sa.mu is locked
ReadClock(c) ==
  /\ Alive
  /\ conns[c].role \in {"host", "client"} /\ conns[c].recv # <<>>
  /\ stamps.read[c] = Nil
  /\ stamps' = [stamps EXCEPT !.read[c] = now]
  /\ UNCHANGED unstamped

\* the handler goes on: sa.lastActive.Store of the value it read, and the
\* rest of processHostToClient or processClientToHost
StoreStamp(c) ==
  /\ stamps.read[c] # Nil
  /\ \/ ProcessHostToClientAt(c, stamps.read[c])
     \/ ProcessClientToHostAt(c, stamps.read[c])
  /\ stamps' = [read |-> [stamps.read EXCEPT ![c] = Nil],
                top  |-> Max(stamps.top, stamps.read[c])]
  /\ UNCHANGED wall

\* both peers attach and send frames while the clock advances; the handlers
\* of the two forwarding loops run concurrently
NextActive ==
  \/ AttachHost
  \/ \E r \in 0..MaxResume : AttachClient(r)
  \/ \E c \in ConnIds : \E msg \in HostPayloads \cup ClientPayloads : ReadPump(c, msg)
  \/ \E c \in ConnIds : ReadClock(c)
  \/ \E c \in ConnIds : StoreStamp(c)
  \/ \E c \in ConnIds : WritePump(c)
  \/ Tick

SpecActive == Init /\ [][NextActive]_vars

\* C34: in every reachable state lastActive is at least the timestamp of
\* every frame the session has processed, also when the handlers of the host
\* and of the client update it concurrently.
C34_LastActiveCoversProcessed == lastActive >= stamps.top

\* C35: Allow(n) returns true and deducts exactly n tokens iff, after the
\* refill for the elapsed time capped at the capacity B, at least n tokens
\* are there; otherwise it returns false and deducts nothing; after every
\* call the token count is between 0 and B.
C35_AllowDeductsIffAvailable ==
  /\ [](0 <= rate.tokens /\ rate.tokens <= RateBPS)
  /\ [][\A n \in FrameLens :
          RateForward(n) =>
            LET avail == Min(rate.tokens + (now - rate.lastRefill) * RateBPS, RateBPS)
            IN IF avail >= n
               THEN fwdLog' = Append(fwdLog, [t |-> now, n |-> n])
                    /\ rate'.tokens = avail - n
               ELSE fwdLog' = fwdLog /\ rate'.tokens = avail]_vars

\* the bucket is empty after a frame was granted and another one refused,
\* and a refill has been due
C35_Witness ==
  /\ rate.tokens = 0 /\ rate.lastRefill > 0
  /\ fwdLog # <<>> /\ nframes > Len(fwdLog)

\* the tokens a call of Allow(n) found after its refill: what it left, and
\* the n it took if it granted the frame
AfterRefill(n) == rate'.tokens + (IF fwdLog' # fwdLog THEN n ELSE 0)

\* C36: if the clock read by Allow is earlier than the time of the previous
\* refill, the call takes the elapsed time for zero: its refill adds no
\* tokens and removes none.
C36_RegressionIsZeroElapsed ==
  [][\A n \in FrameLens :
       (wall.at < wall.refill /\ RateForward(n)) => AfterRefill(n) = rate.tokens]_vars

\* C37: Hub.GetOrCreate never returns a closed actor: the actor a connect
\* for SID obtains is open, also when the previous actor of SID was closed
\* (for instance by the idle timeout), so its attach is not refused.
C37_GetOrCreateReturnsOpen == [][GetOrCreate(SID) => ~closed']_vars

\* C38: once the session is closed its seq and its ring are not modified
\* again while the process runs: a frame that was still in a peer's ingress
\* channel when Close ran is neither given a seq nor pushed to the ring.
C38_ClosedSessionIsFrozen ==
  [][(closed /\ closed' /\ Alive') => (seq' = seq /\ ring' = ring)]_vars

\* the frame with seq s, as the ring r holds it, came from the host
FromHost(r, s) ==
  \E i \in 1..Len(r.frames) : r.frames[i].seq = s /\ r.frames[i].from = "host"

\* the seqs of the replayed frames in the queue q
ReplayedSeqs(q) == {q[i].seq : i \in {j \in 1..Len(q) : q[j].kind = "replay"}}

\* C39: every payload replayed to a resuming client is a frame that was
\* forwarded from the host to the client: a frame the client itself sent to
\* the host is not replayed back to the client.
C39_ReplayOnlyHostFrames ==
  [][\A r \in 0..MaxResume :
       (AttachClient(r) /\ client' = nconn') =>
          \A s \in ReplayedSeqs(conns'[nconn'].send) \cup ReplayedSeqs(blocked'.pending) :
             FromHost(ring, s)]_vars

\* ------------------------------------------------------------- oversized binary frames
\* a binary frame one byte longer than the rate
LongBin == BinOfLen(RateBPS + 1)

\* readPump of a host connection whose peer sends such a frame
ReadLong(c) == conns[c].role = "host" /\ ReadPumpOf(c, LongBin)

\* the host sends binary frames longer than the rate, at any time, to an
\* attached client whose write pump drains them
NextBurst ==
  \/ AttachHost
  \/ \E r \in 0..MaxResume : AttachClient(r)
  \/ \E c \in ConnIds : ReadLong(c)
  \/ \E c \in ConnIds : ProcessHostToClient(c)
  \/ \E c \in ConnIds : WritePump(c)
  \/ ResumeBlocked
  \/ Tick

SpecBurst == Init /\ [][NextBurst]_vars

\* the handler of connection c takes a binary frame longer than the rate
\* while the client slot holds an open connection
LongNext(c) ==
  /\ BinaryNext(c) /\ Len(Head(conns[c].recv)) > RateBPS
  /\ client # 0 /\ ~conns[client].closed

\* C40: a binary frame from the host that is longer than the rate B is never
\* forwarded to the client, however long the session was quiet before: the
\* client is sent a throttle event in its place, and the frame's bytes are
\* not counted as forwarded.
C40_OversizedFrameThrottled ==
  [][\A c \in ConnIds :
       (LongNext(c) /\ ProcessHostToClient(c)) =>
          /\ conns'[client].send \o blocked'.pending =
               Append(conns[client].send, ThrottleFrame(seq))
          /\ metrics'.bytes = metrics.bytes
          /\ rate'.tokens <= RateBPS]_vars

\* a frame longer than the rate was refused after a quiet second, the bucket
\* full, and the client was sent the throttle event
C40_Witness ==
  /\ metrics.throttle >= 1 /\ metrics.bytes = 0
  /\ rate.lastRefill > 0 /\ rate.tokens = RateBPS
  /\ client # 0 /\ conns[client].send # <<>>
  /\ Last(conns[client].send).kind = "throttle"

====
